---- MODULE Spec2Model ----
(***************************************************************************)
(* Random-walk Metropolis-Hastings sampler of                              *)
(* exercise_random_walk_MCMC.ipynb.                                        *)
(*                                                                         *)
(* Numbers.  The notebook computes in IEEE-754 doubles.  Two encodings     *)
(* are used here:                                                          *)
(*   - parameters, data, model values, residuals and their sum are         *)
(*     records [k, v]: a finite value v (an integer: every input is drawn  *)
(*     from the integers), a non-zero value of magnitude below 1e-12 and   *)
(*     sign v ("tiny": the sine of the double nearest to a multiple of     *)
(*     pi), nan, or +/-inf (v = 1 / -1).  A tiny term added to an integer  *)
(*     is dropped: finite results are those of the code up to rounding.    *)
(*     An entry of the Cholesky factor that is not an integer (a square    *)
(*     root, a rounded quotient) is a value of sign v whose magnitude is   *)
(*     outside the model ("frac"): only its product by 0 is defined.       *)
(*   - likelihoods, their ratio r, alpha and the uniform draw are          *)
(*     records [k, q]: exp(-q / LLDen) (k = "exp", a normal double),       *)
(*     2^-q (k = "pow2"), zero, inf or nan.  A result in the subnormal     *)
(*     range, where a double keeps few bits, has k = "sub": it is positive *)
(*     and below every normal double, and its value is outside the model   *)
(*     (comparing or dividing two of them is not defined).                 *)
(* An operator applied outside the values it models is OutsideModel, which *)
(* has no value.                                                           *)
(***************************************************************************)
EXTENDS Integers, Sequences, FiniteSets

\* ------------------------------------------------------------------ bounds
\* Largest iteration count n_it explored.
MaxIt == 2

\* ------------------------------------------------------ program constants
dim == 2
w0 == 5
w1 == 3
\* sigma_y = 1.5 = sigma_y_num / sigma_y_den
sigma_y_num == 3
sigma_y_den == 2

\* Doubles, in thousandths: exp(-x) is 0.0 as soon as x > 745.133, it is
\* subnormal (below 2^-1022) as soon as x > 708.396, and exp(x) is inf as
\* soon as x > 709.782.
ExpUnderflowMilli == 745133
SubnormalMilli == 708396
ExpOverflowMilli == 709782
\* ln 2 = 0.6931 4718 0559..., in three pieces: ten-thousandths, the next
\* four digits (units of 1e-8) and the next four (units of 1e-12)
Ln2E4 == 6931
Ln2E8 == 4718
Ln2E12 == 559

OutsideModel == CHOOSE x \in {} : TRUE

\* ------------------------------------------------- doubles: values [k, v]
Fin(x) == [k |-> "fin", v |-> x]
Tiny(s) == [k |-> "tiny", v |-> s]
Frac(s) == [k |-> "frac", v |-> s]
NaN == [k |-> "nan", v |-> 0]
PInf == [k |-> "inf", v |-> 1]
NInf == [k |-> "inf", v |-> -1]
FUnset == [k |-> "unset", v |-> 0]

Sign(x) == IF x > 0 THEN 1 ELSE IF x < 0 THEN -1 ELSE 0
Abs(x) == IF x < 0 THEN -x ELSE x

IsFinite(a) == a.k \in {"fin", "tiny"}

FNeg(a) == IF a.k = "nan" THEN NaN ELSE [k |-> a.k, v |-> -a.v]

\* a + b: nan is absorbing, inf + (-inf) is nan, a tiny term is dropped
\* beside a non-zero integer.
FAdd(a, b) ==
    IF a.k = "nan" \/ b.k = "nan" THEN NaN
    ELSE IF a.k = "frac" \/ b.k = "frac" THEN OutsideModel
    ELSE IF a.k = "inf" /\ b.k = "inf" THEN (IF a.v = b.v THEN a ELSE NaN)
    ELSE IF a.k = "inf" THEN a
    ELSE IF b.k = "inf" THEN b
    ELSE IF a.k = "tiny" /\ b.k = "tiny" THEN (IF a.v = b.v THEN a ELSE OutsideModel)
    ELSE IF a.k = "tiny" THEN (IF b.v = 0 THEN a ELSE b)
    ELSE IF b.k = "tiny" THEN (IF a.v = 0 THEN b ELSE a)
    ELSE Fin(a.v + b.v)

FSub(a, b) == FAdd(a, FNeg(b))

\* a * b: nan is absorbing, inf * 0 is nan, inf * tiny is inf, and 0 times a
\* finite value is 0.
FMul(a, b) ==
    IF a.k = "nan" \/ b.k = "nan" THEN NaN
    ELSE IF a.k = "frac" \/ b.k = "frac"
         THEN (IF a = Fin(0) \/ b = Fin(0) THEN Fin(0) ELSE OutsideModel)
    ELSE IF a.k = "inf" \/ b.k = "inf"
         THEN (IF Sign(a.v) * Sign(b.v) = 0 THEN NaN
               ELSE [k |-> "inf", v |-> Sign(a.v) * Sign(b.v)])
    ELSE IF a.k = "tiny" \/ b.k = "tiny"
         THEN (IF Sign(a.v) * Sign(b.v) = 0 THEN Fin(0)
               ELSE Tiny(Sign(a.v) * Sign(b.v)))
    ELSE Fin(a.v * b.v)

\* The even k in 2 .. SinTableMax for which the double sin(k*(pi/2)) is
\* positive (it is negative for the others, and sin is odd): the sign of
\* the rounding error of k*(pi/2).
SinTableMax == 240
SinTinyPositive ==
    {2, 6, 10, 14, 18, 22, 30, 38, 46, 52, 54, 62, 66, 68, 70, 74, 78, 82,
     84, 86, 90, 98, 100, 102, 104, 106, 114, 116, 118, 122, 130, 134, 136,
     138, 146, 150, 154, 162, 168, 170, 174, 182, 186, 188, 190, 194, 200,
     202, 206, 208, 214, 218, 220, 222, 226, 232, 234, 238}

\* np.sin(a * (np.pi/2)): nan for a non-finite argument; for an integer k,
\* 0.0 at k = 0, +/-1 at odd k, and a tiny non-zero value at the other
\* even k.
SinHalfPi(a) ==
    IF a.k \in {"nan", "inf"} THEN NaN
    ELSE IF a.k = "tiny" THEN a
    ELSE IF a.v = 0 THEN Fin(0)
    ELSE IF a.v % 4 = 1 THEN Fin(1)
    ELSE IF a.v % 4 = 3 THEN Fin(-1)
    ELSE IF Abs(a.v) > SinTableMax THEN OutsideModel
    ELSE Tiny(Sign(a.v) * (IF Abs(a.v) \in SinTinyPositive THEN 1 ELSE -1))

\* ----------------------------------------- doubles in [0, inf]: values [k, q]
\* -1/2/sigma_y**2 = -(sigma_y_den^2) / (2 * sigma_y_num^2)
LLNum == sigma_y_den * sigma_y_den
LLDen == 2 * sigma_y_num * sigma_y_num

EExp(q) == [k |-> "exp", q |-> q]
Pow2(q) == [k |-> "pow2", q |-> q]
ESub(q) == [k |-> "sub", q |-> q]
EZero == [k |-> "zero", q |-> 0]
EInf == [k |-> "inf", q |-> 0]
ENaN == [k |-> "nan", q |-> 0]
EUnset == [k |-> "unset", q |-> 0]
One == EExp(0)

\* The double nearest to exp(-q / LLDen).
ERound(q) ==
    IF q * 1000 > ExpUnderflowMilli * LLDen THEN EZero
    ELSE IF q * 1000 > SubnormalMilli * LLDen THEN ESub(q)
    ELSE IF (-q) * 1000 > ExpOverflowMilli * LLDen THEN EInf
    ELSE EExp(q)

\* The integer part of m * ln 2, 0 <= m <= 20000 (ln 2 is irrational: for
\* m > 0 the product is never an integer).
FloorTimesLn2(m) ==
    LET t == m * Ln2E4
        f == (t % 10000) * 10000 + m * Ln2E8 + (m * Ln2E12) \div 10000
    IN  (t \div 10000) + (f \div 100000000)

\* 2^-k < exp(-q/LLDen) iff q < k * LLDen * ln 2, and
\* exp(-q/LLDen) < 2^-k iff q > k * LLDen * ln 2.
Pow2LessExp(k, q) ==
    IF k = 0 THEN q < 0 ELSE q <= FloorTimesLn2(k * LLDen)
ExpLessPow2(q, k) ==
    IF k = 0 THEN q > 0 ELSE q > FloorTimesLn2(k * LLDen)

\* a < b on doubles: false as soon as one side is nan.
ELess(a, b) ==
    IF a.k = "nan" \/ b.k = "nan" THEN FALSE
    ELSE IF a.k = "zero" THEN b.k # "zero"
    ELSE IF b.k = "zero" THEN FALSE
    ELSE IF a.k = "inf" THEN FALSE
    ELSE IF b.k = "inf" THEN TRUE
    ELSE IF a.k = "sub" /\ b.k = "sub" THEN OutsideModel
    ELSE IF a.k = "sub" THEN TRUE
    ELSE IF b.k = "sub" THEN FALSE
    ELSE IF a.k = b.k THEN a.q > b.q
    ELSE IF a.k = "pow2" THEN Pow2LessExp(a.q, b.q)
    ELSE ExpLessPow2(a.q, b.q)

\* a >= b on doubles: false as soon as one side is nan.
EGeq(a, b) == a.k # "nan" /\ b.k # "nan" /\ ~ELess(a, b)

\* a / b on numpy doubles (division by zero warns and yields inf or nan),
\* for two values of np.exp.
EDiv(a, b) ==
    IF a.k = "nan" \/ b.k = "nan" THEN ENaN
    ELSE IF b.k = "zero" THEN (IF a.k = "zero" THEN ENaN ELSE EInf)
    ELSE IF b.k = "inf" THEN (IF a.k = "inf" THEN ENaN ELSE EZero)
    ELSE IF a.k = "zero" THEN EZero
    ELSE IF a.k = "inf" THEN EInf
    ELSE IF a.k = "exp" /\ b.k = "exp" THEN ERound(a.q - b.q)
    ELSE OutsideModel

\* np.exp(-1/2/sigma_y**2 * s), s >= 0
NpExpNeg(s) ==
    IF s.k = "nan" THEN ENaN
    ELSE IF s.k = "inf" THEN (IF s.v > 0 THEN EZero ELSE EInf)
    ELSE IF s.k = "tiny" THEN One
    ELSE ERound(LLNum * s.v)

\* min(b, a) in place of min(a, b): a if a < b, else b (min(nan, 1) is nan).
PyMinSwapped(a, b) == IF ELess(a, b) THEN a ELSE b
\* Python's min(a, b): b if b < a, else a (so min(1, nan) is 1).
PyMin(a, b) == IF ELess(b, a) THEN b ELSE a

\* ------------------------------------------------------------- the model
Idx == 0 .. dim - 1
Vec(a, b) == [j \in Idx |-> IF j = 0 THEN a ELSE b]

\* def increasing_sinus_model(x, w):
\*     y = w[0]*np.sin(w[1]*x*(np.pi/2)) + w[1]*x
increasing_sinus_model(x, w) ==
    [i \in DOMAIN x |->
        FAdd(FMul(w[0], SinHalfPi(FMul(w[1], x[i]))), FMul(w[1], x[i]))]

\* np.sum(a) of an array indexed 0 .. Len-1
RECURSIVE NpSumTo(_, _)
NpSumTo(a, m) == IF m = 0 THEN Fin(0) ELSE FAdd(NpSumTo(a, m - 1), a[m - 1])
NpSum(a) == NpSumTo(a, Cardinality(DOMAIN a))

\* ------------------------------------------------------------------- state
VARIABLES
    pc,             \* "setup", "loop", "done", "error" (LinAlgError raised)
    nx_data,        \* number of data points
    x_data,         \* abscissae of the data
    y_noisy,        \* the observed data
    w_MLE,          \* the least-squares estimate, start of the chain
    n_it,           \* number of iterations
    proposal_cov,   \* covariance of the proposal
    w_n,            \* the trajectory, np.zeros((n_it+1, dim))
    R,              \* factor returned by linalg.cholesky
    n,              \* index of the next iteration of the loop
    mv_norm,        \* the dim standard-normal draws of the last iteration
    w_star,         \* candidate of the last iteration
    r,              \* likelihood ratio of the last iteration
    alpha,          \* acceptance probability of the last iteration
    u,              \* value of random.random() in the last iteration
    call,           \* the last direct evaluation of fun_LL and of the
                    \* accept-reject step on a given candidate
    writes          \* history: number of assignments to each row of w_n

vars == <<pc, nx_data, x_data, y_noisy, w_MLE, n_it, proposal_cov, w_n, R, n,
          mv_norm, w_star, r, alpha, u, call, writes>>

\* ---------------------------------------------------------- synthetic data
\* a / b when it is an integer
ExactDiv(a, b) == IF a % b = 0 THEN a \div b ELSE OutsideModel

\* np.linspace(start, stop, num), num >= 2
linspace(start, stop, num) ==
    [i \in 0 .. num - 1 |-> Fin(start + ExactDiv(i * (stop - start), num - 1))]

\* nx_data = 200 # can be 20, 50, 100, 400, etc: the values for which
\* np.linspace(0, 10, nx_data) stays in the integers (step 2 and step 1).
NxDataSet == {6, 11}

\* y_nom = increasing_sinus_model(x_data, [w0, w1])
y_nom == increasing_sinus_model(x_data, Vec(Fin(w0), Fin(w1)))

\* rn = [random.gauss(0, sigma_y) for i in range(nx_data)]: the draw at
\* abscissa x, for four vectors of draws (no noise; one draw of 3 at x = 0;
\* 2 and -1 at x = 4 and 8; -2, -1 and 1 at x = 1, 3 and 5).
NoiseAt(p, x) ==
    CASE p = 0 -> 0
      [] p = 1 -> (IF x = 0 THEN 3 ELSE 0)
      [] p = 2 -> (IF x = 4 THEN 2 ELSE IF x = 8 THEN -1 ELSE 0)
      [] p = 3 -> (IF x = 1 THEN -2 ELSE IF x = 3 THEN -1 ELSE IF x = 5 THEN 1 ELSE 0)
RnSet == {[i \in DOMAIN x_data |-> Fin(NoiseAt(p, x_data[i].v))] : p \in 0 .. 3}

\* y_noisy = y_nom + rn
Perturb(rn) == [i \in DOMAIN x_data |-> FAdd(y_nom[i], rn[i])]

\* ----------------------------------------------------- likelihood function
\* def fun_LL(w):
\*     return np.exp(-1/2/sigma_y**2*np.sum((y_noisy - increasing_sinus_model(x_data, w))**2))
SumSqResiduals(y, w) ==
    LET m == increasing_sinus_model(x_data, w)
        d == [i \in DOMAIN y |-> FSub(y[i], m[i])]
    IN  NpSum([i \in DOMAIN y |-> FMul(d[i], d[i])])

fun_LL(w) == NpExpNeg(SumSqResiduals(y_noisy, w))

\* ----------------------------------------------------------- least squares
\* lsq_fun = lambda w: (increasing_sinus_model(x_data, w)-y_noisy)
lsq_fun(w) ==
    LET m == increasing_sinus_model(x_data, w)
    IN  [i \in DOMAIN x_data |-> FSub(m[i], y_noisy[i])]

\* The gradient of the sum of squares of lsq_fun at an integer w is zero:
\* with s, c the sine and cosine of w[1]*x*(pi/2), the derivatives of the
\* model are s and x + w[0]*(pi/2)*x*c, and pi is irrational.
SinQ(k) == CASE k % 4 = 1 -> 1 [] k % 4 = 3 -> -1 [] OTHER -> 0
CosQ(k) == CASE k % 4 = 0 -> 1 [] k % 4 = 2 -> -1 [] OTHER -> 0
RECURSIVE DotTo(_, _, _)
DotTo(a, b, m) == IF m = 0 THEN 0 ELSE DotTo(a, b, m - 1) + a[m - 1] * b[m - 1]
StationaryPoint(w) ==
    LET res == [i \in DOMAIN x_data |-> lsq_fun(w)[i].v]
        xs  == [i \in DOMAIN x_data |-> x_data[i].v]
        s   == [i \in DOMAIN x_data |-> SinQ(w[1].v * xs[i])]
        xc  == [i \in DOMAIN x_data |-> xs[i] * CosQ(w[1].v * xs[i])]
        len == Cardinality(DOMAIN x_data)
    IN  /\ DotTo(res, s, len) = 0
        /\ DotTo(res, xs, len) = 0
        /\ (w[0].v = 0 \/ DotTo(res, xc, len) = 0)

\* res = least_squares(lsq_fun, [w0, w1], method="lm"); w_MLE = res.x
\* Levenberg-Marquardt started at a stationary point stops there; from any
\* other start its result is outside the model.
least_squares(guess) == IF StationaryPoint(guess) THEN guess ELSE OutsideModel

\* ---------------------------------------------------------------- cholesky
Mat(a, b, c, d) == [i \in Idx |-> [j \in Idx |-> IF i = 0 THEN (IF j = 0 THEN a ELSE b)
                                                          ELSE (IF j = 0 THEN c ELSE d)]]
\* The array of doubles holding a matrix of integers.
FMat(A) == [i \in Idx |-> [j \in Idx |-> Fin(A[i][j])]]
ZeroMat == FMat(Mat(0, 0, 0, 0))
Transpose(A) == [i \in Idx |-> [j \in Idx |-> A[j][i]]]
MatMul(A, B) ==
    [i \in Idx |-> [j \in Idx |->
        FAdd(FMul(A[i][0], B[0][j]), FMul(A[i][1], B[1][j]))]]
MatVec(A, z) ==
    [i \in Idx |-> FAdd(FMul(A[i][0], Fin(z[0])), FMul(A[i][1], Fin(z[1])))]

\* scipy.linalg.cholesky(a) with its default lower=False: LAPACK's potrf on
\* the upper triangle, in doubles:
\*     u00 = sqrt(a00); u01 = a01 / u00 (or a01 * (1 / u00), by the build);
\*     u11 = sqrt(a11 - u01 * u01)
\* and LinAlgError as soon as the argument of a square root is not
\* positive.  Two families of matrices are modelled.
\*  - u00 is a power of two that divides a01: every operation up to the
\*    second pivot a11 - u01 * u01 is exact, in every build.
\*  - The singular matrices [[a, a], [a, a]], a in 1 .. UniformMax: unless a
\*    is a square, sqrt(a) and u01 are rounded and the second pivot, zero
\*    over the reals, is of the order of 1e-16 with the sign the rounding
\*    gives it: positive in every build for a in PivotPositive, positive or
\*    not by the build (quotient or reciprocal, fused multiply-add or not)
\*    for a in PivotByBuild, and not positive otherwise.
PowersOfTwo == {1, 2, 4, 8, 16}
UniformMax == 30
PivotPositive == {2, 7, 8, 15, 19, 28}
PivotByBuild == {10, 11, 14, 21, 22, 29, 30}

Uniform(A) ==
    /\ A[0][0] \in 1 .. UniformMax
    /\ A[0][1] = A[0][0] /\ A[1][0] = A[0][0] /\ A[1][1] = A[0][0]

\* Square root of a perfect square.
ISqrt(m) == CHOOSE s \in 0 .. m : s * s = m
\* np.sqrt of a positive integer
SqrtF(m) == IF \E s \in 1 .. m : s * s = m THEN Fin(ISqrt(m)) ELSE Frac(1)

\* The second pivot when u00 is a power of two that divides a01.
ExactPivot(A) ==
    LET u00 == CHOOSE s \in PowersOfTwo : s * s = A[0][0]
        u01 == ExactDiv(A[0][1], u00)
    IN  A[1][1] - u01 * u01

\* linalg.cholesky(A) can raise LinAlgError.
CholeskyFails(A) ==
    \/ A[0][0] <= 0
    \/ /\ A[0][0] > 0
       /\ IF Uniform(A) THEN A[0][0] \notin PivotPositive
                        ELSE ExactPivot(A) <= 0

\* linalg.cholesky(A) can return a factor.
CholeskyPasses(A) ==
    /\ A[0][0] > 0
    /\ IF Uniform(A) THEN A[0][0] \in (PivotPositive \cup PivotByBuild)
                     ELSE ExactPivot(A) > 0

\* The factor returned (none when LinAlgError is raised): the
\* upper-triangular U with U^T U = A up to rounding.
cholesky(A) ==
    IF ~CholeskyPasses(A) THEN OutsideModel
    ELSE IF Uniform(A)
    THEN [i \in Idx |-> [j \in Idx |-> IF i = 1 /\ j = 0 THEN Fin(0) ELSE Frac(1)]]
    ELSE LET u00 == ISqrt(A[0][0])
             u01 == ExactDiv(A[0][1], u00)
         IN  [i \in Idx |-> [j \in Idx |->
                 IF i = 0 THEN (IF j = 0 THEN Fin(u00) ELSE Fin(u01))
                 ELSE (IF j = 0 THEN Fin(0) ELSE SqrtF(ExactPivot(A)))]]

\* Covariances explored: symmetric; the first two are positive definite,
\* the third is indefinite and the last three are singular.
CovSet == {Mat(1, 0, 0, 1), Mat(1, 1, 1, 10), Mat(1, 2, 2, 1), Mat(1, 1, 1, 1),
           Mat(2, 2, 2, 2), Mat(10, 10, 10, 10)}

\* ------------------------------------------------------------ random draws
\* random.gauss(0, 1), in the integers
ZDraws == {-1, 0, 1}
\* The vectors of draws whose product by the factor is in the model: no
\* non-zero draw meets an entry that is not an integer.
ZVectors(U) ==
    {z \in [Idx -> ZDraws] :
        \A i \in Idx : \A j \in Idx : U[i][j].k = "frac" => z[j] = 0}
\* random.random() in [0, 1): 0.0, 2^-8 = 0.0039, 2^-1 = 0.5
UDraws == {EZero, Pow2(8), Pow2(1)}

\* ------------------------------------------------------------------- Init
\* The state when the MCMC cell has set its parameters and allocated w_n.
InitCommon ==
    /\ pc = "setup"
    /\ n_it \in 0 .. MaxIt
    /\ proposal_cov \in CovSet
    /\ w_n = [i \in 0 .. n_it |-> Vec(Fin(0), Fin(0))]
    /\ R = ZeroMat
    /\ n = 0
    /\ mv_norm = Vec(0, 0)
    /\ w_star = Vec(FUnset, FUnset)
    /\ r = EUnset
    /\ alpha = EUnset
    /\ u = EUnset
    /\ call = [done |-> FALSE]
    /\ writes = [i \in 0 .. n_it |-> 0]

InitData ==
    /\ nx_data \in NxDataSet
    /\ x_data = linspace(0, 10, nx_data)
    /\ y_noisy \in {Perturb(rn) : rn \in RnSet}

Init ==
    /\ InitData
    /\ w_MLE = least_squares(Vec(Fin(w0), Fin(w1)))
    /\ InitCommon

\* ---------------------------------------------------------------- actions
\* R = linalg.cholesky(proposal_cov) raises LinAlgError: the cell stops.
InitialiseFails ==
    /\ pc = "setup"
    /\ CholeskyFails(proposal_cov)
    /\ pc' = "error"
    /\ UNCHANGED <<nx_data, x_data, y_noisy, w_MLE, n_it, proposal_cov, w_n, R, n, mv_norm,
                   w_star, r, alpha, u, call, writes>>

\* R = linalg.cholesky(proposal_cov); w_n[0,:] = w_MLE
Initialise ==
    /\ pc = "setup"
    /\ CholeskyPasses(proposal_cov)
    /\ R' = cholesky(proposal_cov)
    /\ w_n' = [w_n EXCEPT ![0] = w_MLE]
    /\ writes' = [writes EXCEPT ![0] = @ + 1]
    /\ n' = 0
    /\ pc' = IF n_it = 0 THEN "done" ELSE "loop"
    /\ UNCHANGED <<nx_data, x_data, y_noisy, w_MLE, n_it, proposal_cov, mv_norm, w_star, r,
                   alpha, u, call>>

\* w_star = w_n[n, :] + np.transpose(np.matmul(R, np.transpose(mv_norm)))
Proposal(w, z) ==
    LET rz == MatVec(R, z) IN [j \in Idx |-> FAdd(w[j], rz[j])]

\* r = fun_LL(w_star)/fun_LL(w_n[n,:])
Ratio(ws, w) == EDiv(fun_LL(ws), fun_LL(w))

\* alpha = r, the min forgotten
AlphaNoMin(rr) == rr
\* alpha = min(1, r)
Alpha(rr) == PyMin(One, rr)

\* random.random() <= alpha
AcceptedOrEqual(uu, a) == ELess(uu, a) \/ (uu.k # "nan" /\ uu = a)
\* if random.random() < alpha
Accepted(uu, a) == ELess(uu, a)

\* The else branch forgotten: a rejected step leaves the row of np.zeros.
NextStateNoElse(uu, a, ws, w) ==
    IF Accepted(uu, a) THEN ws ELSE Vec(Fin(0), Fin(0))
\* if ...: w_n[n+1,:] = w_star  else: w_n[n+1,:] = w_n[n,:]
NextState(uu, a, ws, w) == IF Accepted(uu, a) THEN ws ELSE w

\* The row written is row n in place of row n+1.
SameRow(m) == m
\* Row of w_n written by iteration m: w_n[n+1,:]
NextRow(m) == m + 1

\* One iteration of "for n in range(n_it)".
Step ==
    /\ pc = "loop"
    /\ n < n_it
    /\ \E z \in ZVectors(R) :
         LET ws == Proposal(w_n[n], z)
             rr == Ratio(ws, w_n[n])
             a  == Alpha(rr)
         IN  /\ mv_norm' = z
             /\ w_star' = ws
             /\ r' = rr
             /\ alpha' = a
             /\ \E uu \in UDraws :
                  /\ u' = uu
                  /\ w_n' = [w_n EXCEPT ![NextRow(n)] = NextState(uu, a, ws, w_n[n])]
             /\ writes' = [writes EXCEPT ![NextRow(n)] = @ + 1]
    /\ n' = n + 1
    /\ pc' = IF n + 1 = n_it THEN "done" ELSE "loop"
    /\ UNCHANGED <<nx_data, x_data, y_noisy, w_MLE, n_it, proposal_cov, R, call>>

Next == InitialiseFails \/ Initialise \/ Step

Spec == Init /\ [][Next]_vars

\* The sampler started from a given finite vector in place of the
\* least-squares estimate: beside the data-generating vector, and far from
\* it, where fun_LL underflows to 0.0.
StartSet == {Vec(Fin(w0 - 1), Fin(w1)), Vec(Fin(w0), Fin(w1 + 4))}

InitAnyStart ==
    /\ InitData
    /\ w_MLE \in StartSet
    /\ InitCommon

SpecAnyStart == InitAnyStart /\ [][Next]_vars

\* fun_LL and the statements of one iteration that follow the proposal, as
\* functions of their arguments: the candidate ws is given, the current
\* state is w_MLE and uu is the uniform draw.
\*     r = fun_LL(w_star)/fun_LL(w_n[n,:]); alpha = min(1, r)
\*     if random.random() < alpha: w_n[n+1,:] = w_star
\*     else: w_n[n+1,:] = w_n[n,:]
ArgSet == {Vec(Fin(w0), Fin(w1)), Vec(Fin(w0 - 1), Fin(w1)), Vec(Fin(w0), Fin(w1 + 4)),
           Vec(NaN, Fin(w1)), Vec(PInf, Fin(w1)), Vec(NInf, Fin(w1)),
           Vec(Fin(w0), NaN), Vec(Fin(w0), PInf)}

CallFunLL ==
    /\ pc = "setup"
    /\ ~call.done
    /\ \E ws \in ArgSet : \E uu \in UDraws :
         LET rr == Ratio(ws, w_MLE)
             a  == Alpha(rr)
         IN  call' = [done |-> TRUE, w |-> ws, L |-> fun_LL(ws), r |-> rr,
                      alpha |-> a, u |-> uu,
                      next |-> NextState(uu, a, ws, w_MLE)]
    /\ UNCHANGED <<pc, nx_data, x_data, y_noisy, w_MLE, n_it, proposal_cov, w_n, R,
                   n, mv_norm, w_star, r, alpha, u, writes>>

SpecFunLL == Init /\ [][CallFunLL]_vars

\* ------------------------------------------------------------- properties
Zeros == Vec(Fin(0), Fin(0))
Started == pc \in {"loop", "done"}
Stepped == Started /\ n >= 1
Positive(l) == ELess(EZero, l)
Degenerate(l) == l.k \in {"zero", "nan", "inf"}
ModelInvalid(w) ==
    \E i \in DOMAIN x_data : ~IsFinite(increasing_sinus_model(x_data, w)[i])
PositiveDefinite(A) ==
    /\ A[0][0] > 0
    /\ A[0][0] * A[1][1] - A[0][1] * A[1][0] > 0

\* C1: when the loop has completed, w_n holds n_it + 1 rows, and every row
\* has been assigned exactly once (row 0 by the initialisation, row i + 1
\* by iteration i).
TrajectoryLength ==
    pc = "done" =>
        /\ DOMAIN w_n = 0 .. n_it
        /\ Cardinality(DOMAIN w_n) = n_it + 1
        /\ n = n_it
        /\ \A i \in 0 .. n_it : writes[i] = 1
TrajectoryLengthWitness == pc = "done" /\ n_it >= 2 /\ w_n[2] # w_n[0]

\* C2: after each iteration the row written is the candidate when
\* u < alpha and the previous row otherwise; the rows not yet reached
\* still hold the zeros of the allocation.
AcceptReject ==
    Stepped =>
        /\ w_n[n] = IF ELess(u, alpha) THEN w_star ELSE w_n[n - 1]
        /\ \A i \in n + 1 .. n_it : w_n[i] = Zeros
AcceptRejectWitness ==
    /\ Stepped
    /\ ~ELess(u, alpha)
    /\ w_star # w_n[n - 1]
    /\ w_n[n] = w_n[n - 1]

\* C3: a candidate whose likelihood is at least that of the current state
\* gets alpha = 1 and is accepted, whatever the uniform draw.
MonotoneAccept ==
    (Stepped /\ EGeq(fun_LL(w_star), fun_LL(w_n[n - 1]))) =>
        /\ alpha = One
        /\ w_n[n] = w_star
        /\ \A uu \in UDraws : Accepted(uu, alpha)
MonotoneAcceptWitness ==
    /\ Stepped
    /\ ELess(fun_LL(w_n[n - 1]), fun_LL(w_star))
    /\ r.k = "exp"
    /\ u = Pow2(1)
    /\ w_n[n] = w_star

\* C4: an iteration whose current state has a zero or non-finite likelihood
\* ends the run: the next row is never written.
DegenerateStateTerminates ==
    Started =>
        \A i \in 0 .. n_it - 1 :
            (writes[i] > 0 /\ Degenerate(fun_LL(w_n[i]))) => writes[i + 1] = 0

SetupErrorBeforeLoop ==
    ~PositiveDefinite(proposal_cov) =>
        /\ pc \in {"setup", "error"}
        /\ n = 0
        /\ w_star = Vec(FUnset, FUnset)
        /\ r = EUnset
        /\ \A i \in 1 .. n_it : writes[i] = 0 /\ w_n[i] = Zeros
\* C7: alpha lies in [0, 1] after every iteration, whatever the ratio
\* (zero, above one, inf or nan).
AlphaBounds ==
    Stepped => (EGeq(alpha, EZero) /\ EGeq(One, alpha))
AlphaBoundsWitness == Stepped /\ r = ENaN /\ alpha = One

\* C9: the factor used by the proposal is lower triangular and R R^T is the
\* proposal covariance.
FactorIsLowerCholesky ==
    Started =>
        /\ R[0][1] = Fin(0)
        /\ MatMul(R, Transpose(R)) = FMat(proposal_cov)

\* C10: when the first row has a positive likelihood, so has every row
\* written, and a candidate of likelihood zero is rejected.
PositiveChain ==
    (Started /\ Positive(fun_LL(w_n[0]))) =>
        /\ \A i \in 0 .. n : Positive(fun_LL(w_n[i]))
        /\ (n >= 1 /\ fun_LL(w_star) = EZero) => w_n[n] = w_n[n - 1]
PositiveChainWitness ==
    /\ Stepped
    /\ Positive(fun_LL(w_n[0]))
    /\ fun_LL(w_star) = EZero
    /\ u = EZero
    /\ w_n[n] = w_n[n - 1]

====
